---- MODULE Spec2Model ----
(***************************************************************************)
(* Model of src/main.py: the multi-tenant Notion Views relay.               *)
(*                                                                         *)
(* FastAPI runs the synchronous handlers of main.py in a thread pool, so   *)
(* several requests are in flight at once.  Each request occupies a worker *)
(* (an element of Workers); a handler is cut into steps at its upstream    *)
(* calls (requests.get / patch / post) and at the separate load and store  *)
(* of each read-modify-write of shared memory (total_view_increments += 1, *)
(* user_configs[k]["total_views"] = ... + 1, which Python does not make    *)
(* atomic).  Notion is the environment: every upstream call is answered    *)
(* with one of Responses, a page read returns the page as Notion holds it, *)
(* and Notion applies a PATCH exactly when it answers 200.                 *)
(***************************************************************************)
EXTENDS Integers, Sequences, FiniteSets, TLC

\* ----------------------------------------------------------------- bounds
MaxTime == 1
MaxViews == 2
MaxUsers == 2

Workers == {1, 2}

\* ----------------------------------------------------------- input values
\* Strings that the code inspects character by character are sequences.
None == <<"None">>
EmptyStr == <<>>
TokNtn == <<"n", "t", "n", "_", "a">>
TokSecret == <<"s", "e", "c", "r", "e", "t", "_", "b">>
TokShort == <<"n", "t", "n">>
TokOther == <<"x", "y", "z", "_", "c">>

RegisterTokens == {TokNtn, TokSecret, TokShort, TokOther, EmptyStr}
InlineTokens == {None, EmptyStr, TokNtn}
DebugTokens == {None, TokNtn}

DbNone == "None"
DatabaseIds == {"D1", "D2"}

\* Pages as Notion holds them; Null stands for JSON null (page values are >= 0).
Null == -1
Pages == {"pA", "pB", "pCounter", "pChild", "pText"}

\* The page ids a caller sends: a page's id in its canonical form, the id of
\* pA without its dashes ("pA32"), and an id of 12 hex characters ("pShort").
SerialPages == {"pA", "pCounter", "pChild", "pText", "pA32", "pShort"}
DebugPages == {"pA", "pText"}

H8 == <<"0", "1", "2", "3", "4", "5", "6", "7">>
H4 == <<"8", "9", "a", "b">>

\* A 32-hex id, with and without dashes (8-4-4-4-12).
Dashless(c) == <<c>> \o Tail(H8) \o H4 \o H4 \o H4 \o H8 \o H4
Canonical(c) ==
    <<c>> \o Tail(H8) \o <<"-">> \o H4 \o <<"-">> \o H4 \o <<"-">> \o H4
          \o <<"-">> \o H8 \o H4

\* data.page_id: the characters of each page id.
PageIdText(id) ==
    CASE id = "pA" -> Canonical("a")
      [] id = "pB" -> Canonical("b")
      [] id = "pCounter" -> Canonical("c")
      [] id = "pChild" -> Canonical("d")
      [] id = "pText" -> Canonical("e")
      [] id = "pA32" -> Dashless("a")
      [] id = "pShort" -> <<"a">> \o Tail(H8) \o H4
      [] OTHER -> <<>>

StripDashes(s) == SelectSeq(s, LAMBDA c : c # "-")

\* Notion finds a page by the hex digits of the id in the URL, with or without
\* dashes; "none" when the URL names no page.
NotionPage(id) ==
    LET named == {p \in Pages :
                    StripDashes(PageIdText(p)) = StripDashes(PageIdText(id))}
    IN IF named = {} THEN "none" ELSE CHOOSE p \in named : TRUE

\* HTTP status codes the code names.
OK == 200
BadRequest == 400
Unauthorized == 401
InternalError == 500

\* Upstream answers: st = 0 is a network-level failure (requests.RequestException);
\* body "text" is a non-empty body that is not JSON.
NetErr == [st |-> 0, body |-> "none"]
Responses ==
    { [st |-> 200, body |-> "json"],
      [st |-> 404, body |-> "json"],
      [st |-> 404, body |-> "empty"],
      [st |-> 502, body |-> "text"],
      NetErr }
RaceResponses == { [st |-> 200, body |-> "json"], [st |-> 404, body |-> "json"] }

\* user_configs, total_view_increments: the module's globals (lines 58-59).
\* now: the clock.  notion: the number each page holds in Notion.
\* req: each worker's request.  hist: history, read by no action: whether
\* requests have overlapped, the successful increments answered per page, and
\* the database id last set by config/database_id for each key since the key
\* was issued.
VARIABLES user_configs, total_view_increments, now, notion, req, hist

vars == <<user_configs, total_view_increments, now, notion, req, hist>>

\* ------------------------------------------------------------ Notion pages
\* The number each page holds at the start: pA's is still null.
InitialViews(p) == IF p = "pA" THEN Null ELSE 1

ParentType(p) == IF p = "pChild" THEN "page_id" ELSE "database_id"

NumericProp(p) == IF p = "pCounter" THEN "Counter" ELSE "Views"

\* The JSON of page p when its numeric property holds num.
PageJson(p, num) ==
    IF p = "none" THEN [parent |-> [type |-> "None"], properties |-> << >>] ELSE
    [ parent |-> [type |-> ParentType(p)],
      properties |->
        IF p = "pText"
        THEN ("Views" :> [type |-> "rich_text", number |-> Null])
             @@ ("Name" :> [type |-> "title", number |-> Null])
        ELSE (NumericProp(p) :> [type |-> "number", number |-> num])
             @@ ("Name" :> [type |-> "title", number |-> Null]) ]

\* What a GET of the page URL made from id returns when answered 200.
Fetched(id) ==
    LET p == NotionPage(id) IN PageJson(p, IF p = "none" THEN Null ELSE notion[p])

\* Notion answers 200 only for a URL that names a page.
Answers(r, id) == r.st = 200 => NotionPage(id) # "none"

\* ------------------------------------------------------------------ utils
StartsWith(s, prefix) ==
    /\ Len(s) >= Len(prefix)
    /\ SubSeq(s, 1, Len(prefix)) = prefix

Truthy(s) == s # None /\ s # EmptyStr

validate_notion_token(token) ==
    /\ Truthy(token)
    /\ \/ StartsWith(token, <<"n", "t", "n", "_">>)
       \/ StartsWith(token, <<"s", "e", "c", "r", "e", "t", "_">>)

\* sha256(token ++ time)[:16]: the digest is modelled as the pair it hashes,
\* so equal keys come only from equal token and equal clock reading.
generate_api_key(notion_token, t) == [tok |-> notion_token, t |-> t]

NoKey == [tok |-> None, t |-> -1]
UnknownKey == [tok |-> TokOther, t |-> -1]

KeyNeverRegistered(x_api_key, configs) == FALSE

PageUrlNormalized(page_id) ==
    LET raw == StripDashes(PageIdText(page_id)) IN
    IF Len(raw) = 32
    THEN SubSeq(raw, 1, 8) \o <<"-">> \o SubSeq(raw, 9, 12) \o <<"-">>
           \o SubSeq(raw, 13, 16) \o <<"-">> \o SubSeq(raw, 17, 20) \o <<"-">>
           \o SubSeq(raw, 21, 32)
    ELSE PageIdText(page_id)

\* url = f"https://api.notion.com/v1/pages/{page_id}": the id as received.
PageUrl(page_id) == PageIdText(page_id)

\* "x_api_key and x_api_key in user_configs"
KeyRegistered(x_api_key, configs) ==
    x_api_key # NoKey /\ x_api_key \in DOMAIN configs

IsNotServerError(st) == st < 500

\* "res.status_code != 200" negated
IsOk(st) == st = OK

\* "res.json() if res.content else {...}": raises when the body is not JSON
ErrorDetailRaises(r) == r.body = "text"

\* --------------------------------------------------------- request records
\* A worker's request: the handler's arguments and local variables, where
\* the handler stands (pc), the upstream calls it has issued (calls) and,
\* once pc = "done", the status and body it answers with.
NoResp ==
    [ previous_views |-> Null, new_views |-> Null, api_key |-> NoKey,
      database_id |-> DbNone, total_views |-> Null, total_user_views |-> Null ]

Idle ==
    [ pc |-> "idle", op |-> "none", x_api_key |-> NoKey, token |-> None,
      page_id |-> "none", database_id |-> DbNone, notion_token |-> None,
      registered |-> FALSE, calls |-> <<>>, prop |-> "none",
      current |-> Null, new_val |-> Null, tmp |-> Null,
      status |-> 0, resp |-> NoResp ]

InFlight(w) == req[w].pc \notin {"idle", "done"}

\* One upstream call as the log keeps it.
Call(method, target, token, r, value) ==
    [ m |-> method, url |-> target, token |-> token, st |-> r.st,
      body |-> r.body, number |-> value ]

FinishRetry(r, status) == [r EXCEPT !.status = status]

\* The handler ends: it returns, or raises the HTTPException it answers with.
Finish(r, status) == [r EXCEPT !.pc = "done", !.status = status]

NoTouch(configs, key, t) == configs

\* user_cfg["last_activity"] = datetime.now().isoformat()
Touch(configs, key, t) == [configs EXCEPT ![key].last_activity = t]

\* A request begins: it overlaps if another one is in flight.
Begin(w) ==
    [hist EXCEPT !.overlapped = @ \/ \E v \in Workers \ {w} : InFlight(v)]

\* A successful increment of page p is answered.
Succeed(p) == [hist EXCEPT !.succeeded[p] = @ + 1]

\* config/database_id has set d for key k.
Configured(h, k, d) ==
    [h EXCEPT !.set_db = [x \in DOMAIN @ \cup {k} |-> IF x = k THEN d ELSE @[x]]]

\* A registration has issued key k.
Issue(h, k) == [h EXCEPT !.set_db = [x \in DOMAIN @ \ {k} |-> @[x]]]

Init ==
    /\ user_configs = << >>
    /\ total_view_increments = 0
    /\ now = 0
    /\ notion = [p \in Pages |-> InitialViews(p)]
    /\ req = [w \in Workers |-> Idle]
    /\ hist = [overlapped |-> FALSE, succeeded |-> [p \in Pages |-> 0],
               set_db |-> << >>]

\* time.time() / datetime.now() move on between any two steps, or do not.
Tick ==
    /\ now < MaxTime
    /\ now' = now + 1
    /\ UNCHANGED <<user_configs, total_view_increments, notion, req>>
    /\ UNCHANGED hist

\* The response has been sent; the worker is free again.
Return(w) ==
    /\ req[w].pc = "done"
    /\ req' = [req EXCEPT ![w] = Idle]
    /\ UNCHANGED <<user_configs, total_view_increments, now, notion>>
    /\ UNCHANGED hist

\* ------------------------------------------------------------ POST /register
\* register_user's handlers: "except requests.RequestException" answers 500,
\* and "except Exception" catches every other exception raised in the try
\* block, the HTTPException(400) of the two checks included, and answers 500.
RegisterExcept(raised) == InternalError

NewRecordOneView(notion_token, database_id, t) ==
    [ notion_token |-> notion_token, database_id |-> database_id,
      created_at |-> t, total_views |-> 1, last_activity |-> t ]

\* The record register_user stores (lines 127-133).
NewRecord(notion_token, database_id, t) ==
    [ notion_token |-> notion_token, database_id |-> database_id,
      created_at |-> t, total_views |-> 0, last_activity |-> t ]

StoreAlone(configs, api_key, record) == [k \in {api_key} |-> record]

\* user_configs[api_key] = {...}
Store(configs, api_key, record) ==
    [k \in DOMAIN configs \cup {api_key} |->
        IF k = api_key THEN record ELSE configs[k]]

RegStart(w, token, database_id) ==
    /\ req[w].pc = "idle"
    /\ Cardinality(DOMAIN user_configs) < MaxUsers
    /\ LET r == [Idle EXCEPT !.op = "register", !.token = token,
                             !.database_id = database_id] IN
       req' = [req EXCEPT ![w] =
                 IF ~validate_notion_token(token)
                 THEN Finish(r, RegisterExcept(BadRequest))
                 ELSE [r EXCEPT !.pc = "reg_me"]]
    /\ UNCHANGED <<user_configs, total_view_increments, now, notion>>
    /\ hist' = Begin(w)

\* requests.get(".../v1/users/me")
RegMe(w, r) ==
    /\ req[w].pc = "reg_me"
    /\ LET q == [req[w] EXCEPT !.calls =
                   Append(@, Call("GET", "users/me", req[w].token, r, Null))] IN
       IF r = NetErr
       THEN /\ req' = [req EXCEPT ![w] = Finish(q, InternalError)]
            /\ UNCHANGED user_configs
       ELSE IF ~IsOk(r.st)
       THEN /\ req' = [req EXCEPT ![w] = Finish(q, RegisterExcept(BadRequest))]
            /\ UNCHANGED user_configs
       ELSE IF req[w].database_id # DbNone
       THEN /\ req' = [req EXCEPT ![w] = [q EXCEPT !.pc = "reg_db"]]
            /\ UNCHANGED user_configs
       ELSE /\ user_configs' =
                 Store(user_configs, generate_api_key(q.token, now),
                       NewRecord(q.token, q.database_id, now))
            /\ req' = [req EXCEPT ![w] =
                         [Finish(q, OK) EXCEPT
                            !.resp.api_key = generate_api_key(q.token, now)]]
    /\ UNCHANGED <<total_view_increments, now, notion>>
    /\ hist' = IF req'[w].status = OK
               THEN Issue(hist, generate_api_key(req[w].token, now)) ELSE hist

\* requests.get(".../v1/databases/{database_id}"): a non-200 is only logged.
RegDb(w, r) ==
    /\ req[w].pc = "reg_db"
    /\ LET q == [req[w] EXCEPT !.calls =
                   Append(@, Call("GET", req[w].database_id, req[w].token, r, Null))] IN
       IF r = NetErr
       THEN /\ req' = [req EXCEPT ![w] = Finish(q, InternalError)]
            /\ UNCHANGED user_configs
       ELSE /\ user_configs' =
                 Store(user_configs, generate_api_key(q.token, now),
                       NewRecord(q.token, q.database_id, now))
            /\ req' = [req EXCEPT ![w] =
                         [Finish(q, OK) EXCEPT
                            !.resp.api_key = generate_api_key(q.token, now)]]
    /\ UNCHANGED <<total_view_increments, now, notion>>
    /\ hist' = IF req'[w].status = OK
               THEN Issue(hist, generate_api_key(req[w].token, now)) ELSE hist

\* ------------------------------------------------- POST /config/database_id
StoreDatabaseIdOnce(configs, key, database_id) ==
    IF configs[key].database_id = DbNone
    THEN [configs EXCEPT ![key].database_id = database_id]
    ELSE configs

\* user_configs[x_api_key]["database_id"] = database_id
StoreDatabaseId(configs, key, database_id) ==
    [configs EXCEPT ![key].database_id = database_id]

SetDatabaseId(w, x_api_key, database_id) ==
    /\ req[w].pc = "idle"
    /\ LET r == [Idle EXCEPT !.op = "set_database_id", !.x_api_key = x_api_key,
                             !.database_id = database_id] IN
       IF ~KeyRegistered(x_api_key, user_configs)
       THEN /\ req' = [req EXCEPT ![w] = Finish(r, Unauthorized)]
            /\ UNCHANGED user_configs
       ELSE /\ user_configs' =
                 Touch(StoreDatabaseId(user_configs, x_api_key, database_id),
                       x_api_key, now)
            /\ req' = [req EXCEPT ![w] =
                         [Finish(r, OK) EXCEPT !.registered = TRUE,
                                               !.resp.database_id = database_id]]
    /\ UNCHANGED <<total_view_increments, now, notion>>
    /\ hist' = IF KeyRegistered(x_api_key, user_configs)
               THEN Configured(Begin(w), x_api_key, database_id) ELSE Begin(w)

\* ---------------------------------------------------- POST /increment_views
\* "except HTTPException: raise" comes before "except Exception": an
\* HTTPException raised in the try block keeps its status.
IncrementExcept(raised) == raised

ParentNotChecked(page) == TRUE

\* parent.get("type") != "database_id" negated
ParentIsDatabase(page) == page.parent.type = "database_id"

ResolveWithFallback(props) ==
    LET numeric == {n \in DOMAIN props : props[n].type = "number"} IN
    IF "Views" \in DOMAIN props THEN "Views"
    ELSE IF Cardinality(numeric) = 1 THEN CHOOSE n \in numeric : TRUE
    ELSE "none"

\* Lines 215-221: the counter property is the one literally named "Views".
ResolveProperty(props) == IF "Views" \in DOMAIN props THEN "Views" ELSE "none"

IsNumberNotChecked(views_prop) == TRUE

\* views_prop.get("type") != "number" negated
IsNumber(views_prop) == views_prop.type = "number"

CurrentAsRead(views_prop) == views_prop.number

\* views_prop.get("number") or 0
Current(views_prop) ==
    IF views_prop.number = Null \/ views_prop.number = 0 THEN 0 ELSE views_prop.number

NewValTwice(current) == current + 2

\* new_val = current + 1
NewVal(current) == current + 1

\* The status raised by a non-200 upstream answer r: building the detail
\* calls r.json(), which raises on a body that is not JSON (answered 500);
\* otherwise HTTPException(status_code=r.status_code).
RelayStatus(r) == IF ErrorDetailRaises(r) THEN InternalError ELSE r.st

InlineTokenIsNone(token) == token = None

\* "if not data.notion_token"
InlineTokenMissing(token) == ~Truthy(token)

\* Lines 171-183: authenticate, by key or by the token in the body.
IncStart(w, x_api_key, token, page_id) ==
    /\ req[w].pc = "idle"
    /\ NotionPage(page_id) # "none" => notion[NotionPage(page_id)] < MaxViews
    /\ LET r == [Idle EXCEPT !.op = "increment_views", !.x_api_key = x_api_key,
                             !.token = token, !.page_id = page_id] IN
       IF KeyRegistered(x_api_key, user_configs)
       THEN /\ user_configs' = Touch(user_configs, x_api_key, now)
            /\ req' = [req EXCEPT ![w] =
                         [r EXCEPT !.pc = "inc_get", !.registered = TRUE,
                                   !.notion_token = user_configs[x_api_key].notion_token]]
       ELSE /\ UNCHANGED user_configs
            /\ req' = [req EXCEPT ![w] =
                         IF InlineTokenMissing(token)
                         THEN Finish(r, Unauthorized)
                         ELSE [r EXCEPT !.pc = "inc_get", !.notion_token = token]]
    /\ UNCHANGED <<total_view_increments, now, notion>>
    /\ hist' = Begin(w)

\* Lines 187-226: read the page, check it, compute the new value.
IncGet(w, r) ==
    /\ req[w].pc = "inc_get"
    /\ Answers(r, req[w].page_id)
    /\ LET q == [req[w] EXCEPT !.calls =
                   Append(@, Call("GET", PageUrl(req[w].page_id), req[w].notion_token,
                                  r, Null))]
           page == Fetched(q.page_id)
           name == ResolveProperty(page.properties)
       IN
       req' = [req EXCEPT ![w] =
         IF r = NetErr THEN Finish(q, InternalError)
         ELSE IF ~IsOk(r.st) THEN Finish(q, IncrementExcept(RelayStatus(r)))
         ELSE IF ~ParentIsDatabase(page) THEN Finish(q, IncrementExcept(BadRequest))
         ELSE IF name = "none" THEN Finish(q, IncrementExcept(BadRequest))
         ELSE IF ~IsNumber(page.properties[name])
              THEN Finish(q, IncrementExcept(BadRequest))
         ELSE [q EXCEPT !.pc = "inc_patch", !.prop = name,
                        !.current = Current(page.properties[name]),
                        !.new_val = NewVal(Current(page.properties[name]))]]
    /\ UNCHANGED <<user_configs, total_view_increments, now, notion>>
    /\ UNCHANGED hist

\* Lines 228-236: write the new value.
IncPatch(w, r) ==
    /\ req[w].pc = "inc_patch"
    /\ Answers(r, req[w].page_id)
    /\ LET q == [req[w] EXCEPT !.calls =
                   Append(@, Call("PATCH", PageUrl(req[w].page_id), req[w].notion_token,
                                  r, req[w].new_val))]
       IN
       IF r = NetErr
       THEN /\ req' = [req EXCEPT ![w] = Finish(q, InternalError)]
            /\ UNCHANGED notion
       ELSE IF ~IsOk(r.st)
       THEN /\ req' = [req EXCEPT ![w] = Finish(q, IncrementExcept(RelayStatus(r)))]
            /\ UNCHANGED notion
       ELSE /\ req' = [req EXCEPT ![w] = [q EXCEPT !.pc = "inc_load"]]
            /\ notion' = [notion EXCEPT ![NotionPage(q.page_id)] = q.new_val]
    /\ UNCHANGED <<user_configs, total_view_increments, now>>
    /\ UNCHANGED hist

\* Line 240, total_view_increments += 1: the load ...
IncLoadTotal(w) ==
    /\ req[w].pc = "inc_load"
    /\ req' = [req EXCEPT ![w] = [@ EXCEPT !.pc = "inc_store",
                                            !.tmp = total_view_increments]]
    /\ UNCHANGED <<user_configs, total_view_increments, now, notion>>
    /\ UNCHANGED hist

\* ... and the store.
IncStoreTotal(w) ==
    /\ req[w].pc = "inc_store"
    /\ total_view_increments' = req[w].tmp + 1
    /\ req' = [req EXCEPT ![w] = [@ EXCEPT !.pc = "inc_user_load", !.tmp = Null]]
    /\ UNCHANGED <<user_configs, now, notion>>
    /\ UNCHANGED hist

\* The response of a successful increment (lines 246-254).
IncDone(q) ==
    [Finish(q, OK) EXCEPT !.tmp = Null,
                         !.resp.previous_views = q.current,
                         !.resp.new_views = q.new_val]

\* Lines 241-242: the key is looked up again; the tenant's count is loaded ...
IncLoadUser(w) ==
    /\ req[w].pc = "inc_user_load"
    /\ req' = [req EXCEPT ![w] =
                 IF KeyRegistered(req[w].x_api_key, user_configs)
                 THEN [@ EXCEPT !.pc = "inc_user_store",
                                !.tmp = user_configs[req[w].x_api_key].total_views]
                 ELSE IncDone(@)]
    /\ UNCHANGED <<user_configs, total_view_increments, now, notion>>
    /\ hist' = IF KeyRegistered(req[w].x_api_key, user_configs)
               THEN hist ELSE Succeed(NotionPage(req[w].page_id))

\* ... and stored, plus one.
IncStoreUser(w) ==
    /\ req[w].pc = "inc_user_store"
    /\ user_configs' =
         [user_configs EXCEPT ![req[w].x_api_key].total_views = req[w].tmp + 1]
    /\ req' = [req EXCEPT ![w] = IncDone(@)]
    /\ UNCHANGED <<total_view_increments, now, notion>>
    /\ hist' = Succeed(NotionPage(req[w].page_id))

\* ----------------------------------------------------- GET /popular_commands
\* get_popular_commands has no "except HTTPException: raise": the
\* HTTPException raised in its try block is caught by "except Exception".
PopularExcept(raised) == InternalError

\* Lines 267-281: authenticate, read the tenant's token and database id.
PopStart(w, x_api_key) ==
    /\ req[w].pc = "idle"
    /\ LET r == [Idle EXCEPT !.op = "popular_commands", !.x_api_key = x_api_key] IN
       req' = [req EXCEPT ![w] =
         IF ~KeyRegistered(x_api_key, user_configs) THEN Finish(r, Unauthorized)
         ELSE IF user_configs[x_api_key].database_id = DbNone
              THEN Finish([r EXCEPT !.registered = TRUE], BadRequest)
         ELSE [r EXCEPT !.pc = "pop_post", !.registered = TRUE,
                        !.notion_token = user_configs[x_api_key].notion_token,
                        !.database_id = user_configs[x_api_key].database_id]]
    /\ UNCHANGED <<user_configs, total_view_increments, now, notion>>
    /\ hist' = Begin(w)

\* Lines 284-299: query the database.
PopPost(w, r) ==
    /\ req[w].pc = "pop_post"
    /\ LET q == [req[w] EXCEPT !.calls =
                   Append(@, Call("POST", req[w].database_id, req[w].notion_token,
                                  r, Null))]
       IN
       IF r = NetErr
       THEN /\ req' = [req EXCEPT ![w] = Finish(q, InternalError)]
            /\ UNCHANGED user_configs
       ELSE IF ~IsOk(r.st)
       THEN /\ req' = [req EXCEPT ![w] = Finish(q, PopularExcept(RelayStatus(r)))]
            /\ UNCHANGED user_configs
       ELSE /\ req' = [req EXCEPT ![w] = Finish(q, OK)]
            /\ user_configs' = Touch(user_configs, q.x_api_key, now)
    /\ UNCHANGED <<total_view_increments, now, notion>>
    /\ UNCHANGED hist

\* ------------------------------------------------------------- GET /stats
RECURSIVE SumViews(_, _)
SumViews(configs, keys) ==
    IF keys = {} THEN 0
    ELSE LET k == CHOOSE x \in keys : TRUE
         IN configs[k].total_views + SumViews(configs, keys \ {k})

Stats(w) ==
    /\ req[w].pc = "idle"
    /\ req' = [req EXCEPT ![w] =
                 [Finish([Idle EXCEPT !.op = "stats"], OK) EXCEPT
                    !.resp.total_views = total_view_increments,
                    !.resp.total_user_views =
                        SumViews(user_configs, DOMAIN user_configs)]]
    /\ UNCHANGED <<user_configs, total_view_increments, now, notion>>
    /\ hist' = Begin(w)

\* ------------------------------------------------------------- GET /health
Health(w) ==
    /\ req[w].pc = "idle"
    /\ req' = [req EXCEPT ![w] = Finish([Idle EXCEPT !.op = "health"], OK)]
    /\ UNCHANGED <<user_configs, total_view_increments, now, notion>>
    /\ hist' = Begin(w)

\* ----------------------------------------------------- GET /debug/page_meta
\* Lines 344-349: by key or by the token of the query string; no timestamp.
DebugStart(w, x_api_key, token, page_id) ==
    /\ req[w].pc = "idle"
    /\ LET r == [Idle EXCEPT !.op = "debug_page_meta", !.x_api_key = x_api_key,
                             !.token = token, !.page_id = page_id] IN
       req' = [req EXCEPT ![w] =
         IF KeyRegistered(x_api_key, user_configs)
         THEN [r EXCEPT !.pc = "debug_get", !.registered = TRUE,
                        !.notion_token = user_configs[x_api_key].notion_token]
         ELSE IF Truthy(token)
              THEN [r EXCEPT !.pc = "debug_get", !.notion_token = token]
         ELSE Finish(r, Unauthorized)]
    /\ UNCHANGED <<user_configs, total_view_increments, now, notion>>
    /\ hist' = Begin(w)

\* Lines 354-372: a non-200 page read is reported in a 200 answer; any
\* exception (a network failure, a body that is not JSON) answers 500.
DebugGet(w, r) ==
    /\ req[w].pc = "debug_get"
    /\ Answers(r, req[w].page_id)
    /\ LET q == [req[w] EXCEPT !.calls =
                   Append(@, Call("GET", PageUrl(req[w].page_id), req[w].notion_token,
                                  r, Null))]
       IN
       req' = [req EXCEPT ![w] =
         IF r = NetErr \/ ErrorDetailRaises(r) THEN Finish(q, InternalError)
         ELSE Finish(q, OK)]
    /\ UNCHANGED <<user_configs, total_view_increments, now, notion>>
    /\ UNCHANGED hist

\* ---------------------------------------------------------- specification
\* The keys a caller may send: every issued key, a key never issued, none.
HeaderKeys == DOMAIN user_configs \cup {UnknownKey, NoKey}

\* Every operation of the service, the requests handled one after another
\* (by one worker).
SerialWorkers == {1}

Next ==
    \/ Tick
    \/ \E w \in SerialWorkers :
          \/ Return(w)
          \/ \E t \in RegisterTokens, d \in DatabaseIds \cup {DbNone} : RegStart(w, t, d)
          \/ \E r \in Responses : RegMe(w, r)
          \/ \E r \in Responses : RegDb(w, r)
          \/ \E k \in HeaderKeys, d \in DatabaseIds : SetDatabaseId(w, k, d)
          \/ \E k \in HeaderKeys, t \in InlineTokens, p \in SerialPages :
                IncStart(w, k, t, p)
          \/ \E r \in Responses : IncGet(w, r)
          \/ \E r \in Responses : IncPatch(w, r)
          \/ IncLoadTotal(w)
          \/ IncStoreTotal(w)
          \/ IncLoadUser(w)
          \/ IncStoreUser(w)
          \/ \E k \in HeaderKeys : PopStart(w, k)
          \/ \E r \in Responses : PopPost(w, r)
          \/ Stats(w)
          \/ Health(w)
          \/ \E k \in HeaderKeys, t \in DebugTokens, p \in DebugPages :
                DebugStart(w, k, t, p)
          \/ \E r \in Responses : DebugGet(w, r)

Spec == Init /\ [][Next]_vars

\* Increments of one page in flight at once, by the registered tenant or by
\* an inline token; the clock stands still.
RaceKeys == DOMAIN user_configs \cup {NoKey}

NextRace ==
    \E w \in Workers :
       \/ Return(w)
       \/ RegStart(w, TokNtn, DbNone)
       \/ \E r \in RaceResponses : RegMe(w, r)
       \/ \E k \in RaceKeys : IncStart(w, k, TokNtn, "pA")
       \/ \E r \in RaceResponses : IncGet(w, r)
       \/ \E r \in RaceResponses : IncPatch(w, r)
       \/ IncLoadTotal(w)
       \/ IncStoreTotal(w)
       \/ IncLoadUser(w)
       \/ IncStoreUser(w)

SpecRace == Init /\ [][NextRace]_vars

\* Two tenants, each incrementing a page of its own with its own key, the
\* requests of different tenants in flight at once (never two requests of
\* one tenant); the clock stands still.
TenantTokens == {TokNtn, TokSecret}

TenantPage(k) == IF k.tok = TokNtn THEN "pA" ELSE "pB"

OtherTenantsOnly(w, k) ==
    \A v \in Workers \ {w} : InFlight(v) => req[v].x_api_key # k

NextTenants ==
    \E w \in Workers :
       \/ Return(w)
       \/ \E t \in TenantTokens : RegStart(w, t, DbNone)
       \/ \E r \in RaceResponses : RegMe(w, r)
       \/ \E k \in DOMAIN user_configs :
             OtherTenantsOnly(w, k) /\ IncStart(w, k, None, TenantPage(k))
       \/ \E r \in RaceResponses : IncGet(w, r)
       \/ \E r \in RaceResponses : IncPatch(w, r)
       \/ IncLoadTotal(w)
       \/ IncStoreTotal(w)
       \/ IncLoadUser(w)
       \/ IncStoreUser(w)

SpecTenants == Init /\ [][NextTenants]_vars

\* ================================================================== claims
Done(w) == req[w].pc = "done"

Increment(q) == q.op = "increment_views"

\* The calls of request q made with method m.
Issued(q, m) == {i \in 1..Len(q.calls) : q.calls[i].m = m}

\* Each tenant's stored total_views.
ViewsOf(configs) == [k \in DOMAIN configs |-> configs[k].total_views]

\* Worker w takes a step of its request in this transition.
Acts(w) == req'[w] # req[w] /\ req'[w].pc # "idle"

\* C1: the process-wide counter never decreases, and it changes only by +1,
\* in the step of an increment_views request whose PATCH was answered 200.
C1_CounterOnlyGrows ==
    [][ /\ total_view_increments' >= total_view_increments
        /\ total_view_increments' # total_view_increments =>
             /\ total_view_increments' = total_view_increments + 1
             /\ \E w \in Workers :
                  /\ Acts(w)
                  /\ Increment(req[w])
                  /\ Issued(req[w], "PATCH") # {}
                  /\ \A i \in Issued(req[w], "PATCH") : req[w].calls[i].st = OK
      ]_vars

\* C2 as stated: with a key that is not in the registry (or no key),
\* increment_views, popular_commands and config/database_id answer 401 and
\* call Notion not at all, whatever the body carries.
C2_UnknownKeyAlwaysRejected ==
    \A w \in Workers :
       ( /\ Done(w)
         /\ req[w].op \in {"increment_views", "popular_commands", "set_database_id"}
         /\ ~req[w].registered )
       => (req[w].status = Unauthorized /\ req[w].calls = <<>>)

\* C2 amended: with such a key popular_commands and config/database_id answer
\* 401 without any upstream call, and so does increment_views when the body
\* carries no notion_token; with a notion_token in the body increment_views
\* goes on with that token and calls Notion with it.
C2_UnknownKeyRejectedUnlessInlineToken ==
    \A w \in Workers :
       ( /\ req[w].op \in {"increment_views", "popular_commands", "set_database_id"}
         /\ ~req[w].registered )
       => IF Increment(req[w]) /\ req[w].token \notin {None, EmptyStr}
          THEN /\ Done(w) => Len(req[w].calls) >= 1
               /\ \A i \in 1..Len(req[w].calls) :
                     req[w].calls[i].token = req[w].token
          ELSE /\ Done(w)
               /\ req[w].status = Unauthorized
               /\ req[w].calls = <<>>

C2_Witness ==
    \E w \in Workers :
       /\ Done(w)
       /\ Increment(req[w])
       /\ req[w].x_api_key = UnknownKey
       /\ req[w].token = EmptyStr
       /\ req[w].status = Unauthorized
       /\ DOMAIN user_configs # {}

\* C3: register answers 400 for a token without an accepted prefix and for
\* an identity check answered non-200, answers 500 only when the identity
\* check could not be reached, and adds no record when it fails.
C3_RegisterErrors ==
    \A w \in Workers :
       (Done(w) /\ req[w].op = "register") =>
          /\ req[w].token \notin {TokNtn, TokSecret} => req[w].status = BadRequest
          /\ (req[w].calls # <<>> /\ req[w].calls[1].st \notin {0, OK})
                => req[w].status = BadRequest
          /\ req[w].status = InternalError
                => (req[w].calls # <<>> /\ req[w].calls[1].st = 0)
          /\ req[w].status # OK => req[w].resp.api_key = NoKey

\* C4: a non-2xx answer (with a JSON or an empty body) to the page GET, the
\* page PATCH or the database query is relayed with its own status, and a
\* network failure is answered 500.
C4_UpstreamStatusRelayed ==
    \A w \in Workers :
       ( /\ Done(w)
         /\ req[w].op \in {"increment_views", "popular_commands"}
         /\ req[w].calls # <<>> )
       => LET last == req[w].calls[Len(req[w].calls)] IN
          /\ (last.st >= 300 /\ last.body \in {"json", "empty"})
                => req[w].status = last.st
          /\ last.st = 0 => req[w].status = InternalError

\* JSON null read as 0.
Num(x) == IF x = Null THEN 0 ELSE x

\* C5: when requests are handled one after another, the number a page holds
\* in Notion has grown by exactly the number of successful increments of it
\* (interleaved requests with one key on one page can both succeed while
\* the number grows by 1: C5_LostUpdate).
C5_SerialIncrementsExact ==
    (~hist.overlapped /\ \A w \in Workers : ~InFlight(w))
       => \A p \in Pages : Num(notion[p]) = Num(InitialViews(p)) + hist.succeeded[p]

C5_LostUpdate ==
    /\ \A w \in Workers :
          /\ Done(w)
          /\ Increment(req[w])
          /\ req[w].status = OK
          /\ req[w].page_id = "pA"
          /\ req[w].registered
          /\ req[w].resp.previous_views = 0
          /\ req[w].resp.new_views = 1
    /\ req[1].x_api_key = req[2].x_api_key
    /\ hist.succeeded["pA"] = 2
    /\ notion["pA"] = 1

\* C6: the key a successful register answers with was not a key of the
\* registry before that registration.
C6_RegisterKeyIsFresh ==
    [][ \A w \in Workers :
          ( /\ Acts(w)
            /\ req'[w].op = "register"
            /\ req'[w].pc = "done"
            /\ req'[w].status = OK )
          => req'[w].resp.api_key \notin DOMAIN user_configs
      ]_vars

\* C7: an increment_views of a page whose parent is not a database changes,
\* in none of its steps, a counter or a page, issues no PATCH, and once the
\* page is fetched (GET 200) it has answered 400.
C7_NotDatabaseRowRejected ==
    [][ \A w \in Workers :
          ( /\ Acts(w)
            /\ Increment(req'[w])
            /\ ParentType(NotionPage(req'[w].page_id)) # "database_id" )
          => /\ Issued(req'[w], "PATCH") = {}
             /\ req'[w].pc \in {"inc_get", "done"}
             /\ (req'[w].calls # <<>> /\ req'[w].calls[1].st = OK)
                   => (req'[w].pc = "done" /\ req'[w].status = BadRequest)
             /\ total_view_increments' = total_view_increments
             /\ ViewsOf(user_configs') = ViewsOf(user_configs)
             /\ notion' = notion
      ]_vars

C7_Witness ==
    \E w \in Workers :
       /\ Done(w)
       /\ Increment(req[w])
       /\ req[w].page_id = "pChild"
       /\ req[w].registered
       /\ Len(req[w].calls) = 1
       /\ req[w].calls[1].st = OK
       /\ req[w].status = BadRequest

\* C8: an increment_views whose page GET is answered with a non-200 status
\* ends there: no step of it changes the tenants' total_views or the
\* process-wide counter, and it issues no PATCH.
C8_FailedReadChangesNothing ==
    [][ \A w \in Workers :
          ( /\ Acts(w)
            /\ Increment(req'[w])
            /\ \/ req[w].pc = "idle"
               \/ /\ req'[w].calls # <<>>
                  /\ req'[w].calls[1].st \notin {0, OK} )
          => /\ total_view_increments' = total_view_increments
             /\ ViewsOf(user_configs') = ViewsOf(user_configs)
             /\ req'[w].calls # <<>> =>
                  /\ req'[w].pc = "done"
                  /\ req'[w].status # OK
                  /\ Len(req'[w].calls) = 1
                  /\ notion' = notion
      ]_vars

C8_Witness ==
    \E w \in Workers :
       /\ Done(w)
       /\ Increment(req[w])
       /\ req[w].registered
       /\ Len(req[w].calls) = 1
       /\ req[w].calls[1].st = 404
       /\ req[w].status = 404
       /\ user_configs[req[w].x_api_key].total_views = 1
       /\ total_view_increments = 1

\* C9 as stated: a page in a database whose only numeric property is
\* "Counter" (none named "Views") is not rejected: the flow falls back to
\* "Counter" and PATCHes it to its value + 1.
C9_CounterFallback ==
    \A w \in Workers :
       ( /\ Done(w)
         /\ Increment(req[w])
         /\ req[w].page_id = "pCounter"
         /\ req[w].calls # <<>>
         /\ req[w].calls[1].st = OK )
       => /\ req[w].status # BadRequest
          /\ req[w].prop = "Counter"
          /\ Issued(req[w], "PATCH") # {}
          /\ \A i \in Issued(req[w], "PATCH") :
                req[w].calls[i].number = Num(InitialViews("pCounter")) + 1

\* C9 amended: for such a page the flow does not fall back: it looks the
\* property up by the literal name "Views" only, answers 400 as soon as the
\* page is fetched, issues no PATCH and leaves "Counter" as it was.
C9_CounterPageRejected ==
    /\ notion["pCounter"] = InitialViews("pCounter")
    /\ \A w \in Workers :
          ( /\ Increment(req[w])
            /\ req[w].page_id = "pCounter"
            /\ req[w].calls # <<>>
            /\ req[w].calls[1].st = OK )
          => /\ Done(w)
             /\ req[w].status = BadRequest
             /\ req[w].prop = "none"
             /\ Len(req[w].calls) = 1

C9_Witness ==
    \E w \in Workers :
       /\ Done(w)
       /\ Increment(req[w])
       /\ req[w].page_id = "pCounter"
       /\ ~req[w].registered
       /\ Len(req[w].calls) = 1
       /\ req[w].calls[1].st = OK
       /\ req[w].status = BadRequest

\* C10: the number an increment_views PATCHes is the number its GET read
\* (null read as 0) plus 1, written to "Views"; a successful one answers
\* previous_views = the number read and new_views = previous_views + 1,
\* which is then the number the page holds.
C10_WritesReadPlusOne ==
    \A w \in Workers :
       Increment(req[w]) =>
          /\ req[w].pc = "inc_patch" =>
                /\ req[w].prop = "Views"
                /\ req[w].current = Num(notion[NotionPage(req[w].page_id)])
                /\ req[w].new_val = Num(notion[NotionPage(req[w].page_id)]) + 1
          /\ \A i \in Issued(req[w], "PATCH") :
                /\ i = 2
                /\ req[w].calls[1].st = OK
                /\ req[w].calls[i].number = req[w].current + 1
          /\ (Done(w) /\ req[w].status = OK) =>
                /\ Issued(req[w], "PATCH") = {2}
                /\ req[w].resp.previous_views = req[w].current
                /\ req[w].resp.new_views = req[w].resp.previous_views + 1
                /\ notion[NotionPage(req[w].page_id)] = req[w].resp.new_views

C10_Witness ==
    \E w \in Workers :
       /\ Done(w)
       /\ Increment(req[w])
       /\ req[w].status = OK
       /\ req[w].page_id = "pA"
       /\ req[w].resp.previous_views = 0
       /\ req[w].resp.new_views = 1
       /\ notion["pA"] = 1

\* The steps of an increment_views request up to the answer to its PATCH.
BeforePatchSucceeded(pc) == pc \in {"idle", "inc_get", "inc_patch"}

\* C11 as stated: no step of an increment_views request before its PATCH has
\* succeeded changes a tenant record (last_activity included) or the
\* process-wide counter, and a request that ends in an error has taken only
\* such steps.
C11_NothingChangesBeforePatch ==
    [][ \A w \in Workers :
          (Acts(w) /\ Increment(req'[w])) =>
             /\ BeforePatchSucceeded(req[w].pc) =>
                   /\ user_configs' = user_configs
                   /\ total_view_increments' = total_view_increments
             /\ (req'[w].pc = "done" /\ req'[w].status # OK)
                   => BeforePatchSucceeded(req[w].pc)
      ]_vars

\* C11 amended: before its PATCH has succeeded an increment_views request
\* changes neither the process-wide counter nor any field of a tenant record
\* other than last_activity of the tenant whose key it authenticated with,
\* which authentication sets to the time of the request; a request that
\* ends in an error has taken only such steps.
C11_OnlyLastActivityBeforePatch ==
    [][ \A w \in Workers :
          (Acts(w) /\ Increment(req'[w])) =>
             /\ BeforePatchSucceeded(req[w].pc) =>
                   /\ total_view_increments' = total_view_increments
                   /\ user_configs' =
                        IF req[w].pc = "idle" /\ req'[w].registered
                        THEN [user_configs EXCEPT
                                ![req'[w].x_api_key].last_activity = now]
                        ELSE user_configs
             /\ (req'[w].pc = "done" /\ req'[w].status # OK)
                   => BeforePatchSucceeded(req[w].pc)
      ]_vars

C11_Witness ==
    \E w \in Workers :
       /\ Done(w)
       /\ Increment(req[w])
       /\ req[w].registered
       /\ req[w].status = 404
       /\ Len(req[w].calls) = 2
       /\ user_configs[req[w].x_api_key].created_at = 0
       /\ user_configs[req[w].x_api_key].last_activity = 1
       /\ user_configs[req[w].x_api_key].total_views = 0

\* The page passes increment_views' checks: a database row with a property
\* named "Views" of type number.
Valid(p) ==
    LET page == PageJson(p, Null) IN
    /\ page.parent.type = "database_id"
    /\ "Views" \in DOMAIN page.properties
    /\ page.properties["Views"].type = "number"

\* C12: no upstream call is retried.  An increment_views request issues at
\* most one GET and then at most one PATCH, the PATCH only after the GET was
\* answered 200 for a page that passes the checks; a popular_commands
\* request issues at most one POST; an upstream call that fails is the
\* request's last call and the request has ended in an error.
C12_NoRetry ==
    \A w \in Workers :
       /\ Increment(req[w]) =>
             /\ Len(req[w].calls) <= 2
             /\ Issued(req[w], "GET") \subseteq {1}
             /\ Issued(req[w], "PATCH") \subseteq {2}
             /\ Issued(req[w], "POST") = {}
             /\ Len(req[w].calls) = 2 =>
                   /\ req[w].calls[1].st = OK
                   /\ Valid(NotionPage(req[w].page_id))
       /\ req[w].op = "popular_commands" =>
             /\ Len(req[w].calls) <= 1
             /\ Issued(req[w], "POST") = 1..Len(req[w].calls)
       /\ req[w].op \in {"increment_views", "popular_commands"} =>
             \A i \in 1..Len(req[w].calls) :
                req[w].calls[i].st # OK =>
                   /\ i = Len(req[w].calls)
                   /\ Done(w)
                   /\ req[w].status # OK

C12_Witness ==
    \E w \in Workers :
       /\ Done(w)
       /\ Increment(req[w])
       /\ Len(req[w].calls) = 2
       /\ req[w].calls[1].st = OK
       /\ req[w].calls[2].m = "PATCH"
       /\ req[w].calls[2].st = 0
       /\ req[w].status = InternalError

\* C13: an increment_views whose X-API-Key is a key of the registry calls
\* Notion with the token of that tenant's record, whatever notion_token the
\* body carries; the body's token is used only when the header is missing or
\* matches no record.
C13_StoredTokenPreferred ==
    \A w \in Workers :
       Increment(req[w]) =>
          \A i \in 1..Len(req[w].calls) :
             req[w].calls[i].token =
                IF req[w].x_api_key # NoKey /\ req[w].x_api_key \in DOMAIN user_configs
                THEN user_configs[req[w].x_api_key].notion_token
                ELSE req[w].token

C13_Witness ==
    \E w \in Workers :
       /\ Done(w)
       /\ Increment(req[w])
       /\ req[w].x_api_key \in DOMAIN user_configs
       /\ user_configs[req[w].x_api_key].notion_token = TokSecret
       /\ req[w].token = TokNtn
       /\ Len(req[w].calls) = 2
       /\ req[w].calls[1].token = TokSecret
       /\ req[w].calls[2].token = TokSecret
       /\ req[w].status = OK

\* C14: a request on config/database_id, increment_views, popular_commands
\* or debug/page_meta that authenticates with a registered key sets that
\* tenant's last_activity to the time of the request, whatever becomes of
\* the request afterwards, and changes no other tenant's last_activity.
C14_AuthenticationTouches ==
    [][ \A w \in Workers :
          ( /\ Acts(w)
            /\ req[w].pc = "idle"
            /\ req'[w].registered
            /\ req'[w].op \in {"set_database_id", "increment_views",
                                "popular_commands", "debug_page_meta"} )
          => /\ DOMAIN user_configs' = DOMAIN user_configs
             /\ \A k \in DOMAIN user_configs :
                   user_configs'[k].last_activity =
                      IF k = req'[w].x_api_key THEN now
                      ELSE user_configs[k].last_activity
      ]_vars

\* The successful increments answered so far.
Successes ==
    hist.succeeded["pA"] + hist.succeeded["pB"] + hist.succeeded["pCounter"]
      + hist.succeeded["pChild"] + hist.succeeded["pText"]

\* C15: requests of different tenants (different keys, different pages) in
\* flight at once end as they would one after another: once all have ended,
\* the process-wide counter is the number of successful increments, every
\* page holds its initial number plus the successful increments of it, and
\* no tenant's total_views exceeds the successful increments of its page.
C15_TenantsIndependent ==
    (\A w \in Workers : ~InFlight(w)) =>
       /\ total_view_increments = Successes
       /\ \A p \in Pages : Num(notion[p]) = Num(InitialViews(p)) + hist.succeeded[p]
       /\ \A k \in DOMAIN user_configs :
             user_configs[k].total_views <= hist.succeeded[TenantPage(k)]

\* C16: a record, once in the registry, stays there with the notion_token it
\* has; a successful register leaves its key in the registry with the token
\* of its body; and a request made with a key of the registry authenticates
\* (it is not answered 401).
C16_RecordsStay ==
    [][ /\ DOMAIN user_configs \subseteq DOMAIN user_configs'
        /\ \A k \in DOMAIN user_configs :
              user_configs'[k].notion_token = user_configs[k].notion_token
        /\ \A w \in Workers :
              /\ ( /\ Acts(w)
                   /\ req'[w].op = "register"
                   /\ req'[w].pc = "done"
                   /\ req'[w].status = OK )
                 => /\ req'[w].resp.api_key \in DOMAIN user_configs'
                    /\ user_configs'[req'[w].resp.api_key].notion_token = req'[w].token
              /\ ( /\ Acts(w)
                   /\ req[w].pc = "idle"
                   /\ req'[w].op \in {"set_database_id", "increment_views",
                                       "popular_commands", "debug_page_meta"}
                   /\ req'[w].x_api_key \in DOMAIN user_configs )
                 => /\ req'[w].registered
                    /\ req'[w].status # Unauthorized
      ]_vars

C16_Witness ==
    \E w \in Workers :
       /\ Done(w)
       /\ req[w].op = "set_database_id"
       /\ req[w].status = OK
       /\ req[w].x_api_key = generate_api_key(TokNtn, 0)
       /\ generate_api_key(TokSecret, 1) \in DOMAIN user_configs
       /\ user_configs[req[w].x_api_key].notion_token = TokNtn
       /\ user_configs[req[w].x_api_key].total_views = 1
       /\ now = 1

HexDigits ==
    {"0", "1", "2", "3", "4", "5", "6", "7", "8", "9", "a", "b", "c", "d", "e", "f"}

\* s, its dashes removed, is 32 hex characters.
IsHex32(s) ==
    /\ Len(StripDashes(s)) = 32
    /\ \A i \in 1..32 : StripDashes(s)[i] \in HexDigits

\* The canonical dashed form (8-4-4-4-12) of 32 characters.
Dashed(raw) ==
    SubSeq(raw, 1, 8) \o <<"-">> \o SubSeq(raw, 9, 12) \o <<"-">>
      \o SubSeq(raw, 13, 16) \o <<"-">> \o SubSeq(raw, 17, 20) \o <<"-">>
      \o SubSeq(raw, 21, 32)

\* C17 as stated: increment_views fetches (and patches) the page under the
\* canonical dashed form of the page id when the id has 32 hex characters
\* once its dashes are removed, and otherwise fails without any upstream call.
C17_PageIdNormalized ==
    \A w \in Workers :
       (Increment(req[w]) /\ req[w].pc # "idle") =>
          IF IsHex32(PageIdText(req[w].page_id))
          THEN \A i \in 1..Len(req[w].calls) :
                  req[w].calls[i].url = Dashed(StripDashes(PageIdText(req[w].page_id)))
          ELSE /\ req[w].calls = <<>>
               /\ Done(w) => req[w].status # OK

\* C17 amended: increment_views neither normalizes nor validates the page
\* id: every upstream call of the request is made under the id exactly as
\* received, dashless or of a wrong length as it may be, and the only
\* request that ends without an upstream call is the one answered 401.
C17_PageIdUsedAsReceived ==
    \A w \in Workers :
       Increment(req[w]) =>
          /\ \A i \in 1..Len(req[w].calls) :
                req[w].calls[i].url = PageIdText(req[w].page_id)
          /\ (Done(w) /\ req[w].calls = <<>>) => req[w].status = Unauthorized
          /\ (Done(w) /\ ~IsHex32(PageIdText(req[w].page_id))
                       /\ req[w].status # Unauthorized)
                => (Len(req[w].calls) = 1 /\ req[w].calls[1].m = "GET")

C17_Witness ==
    \E w \in Workers :
       /\ Done(w)
       /\ Increment(req[w])
       /\ req[w].page_id = "pA32"
       /\ req[w].status = OK
       /\ Len(req[w].calls) = 2
       /\ req[w].calls[1].url = Dashless("a")
       /\ req[w].calls[2].url = Dashless("a")
       /\ notion["pA"] = 1

C17_ShortIdFetched ==
    \E w \in Workers :
       /\ Done(w)
       /\ Increment(req[w])
       /\ req[w].page_id = "pShort"
       /\ Len(req[w].calls) = 1
       /\ req[w].calls[1].st = 404
       /\ req[w].status = 404

\* Page p has no property named "Views", or its "Views" is not a number.
NoViewsNumber(p) ==
    /\ p # "none"
    /\ LET props == PageJson(p, Null).properties IN
       \/ "Views" \notin DOMAIN props
       \/ props["Views"].type # "number"

\* C18: an increment_views of a page without a property named "Views", or
\* whose "Views" is not of type number, answers 400 once the page is fetched,
\* issues no PATCH, and none of its steps changes a tenant's total_views,
\* the process-wide counter or a page.
C18_NoViewsRejected ==
    [][ \A w \in Workers :
          ( /\ Acts(w)
            /\ Increment(req'[w])
            /\ NoViewsNumber(NotionPage(req'[w].page_id)) )
          => /\ Issued(req'[w], "PATCH") = {}
             /\ req'[w].pc \in {"inc_get", "done"}
             /\ (req'[w].calls # <<>> /\ req'[w].calls[1].st = OK)
                   => (req'[w].pc = "done" /\ req'[w].status = BadRequest)
             /\ total_view_increments' = total_view_increments
             /\ ViewsOf(user_configs') = ViewsOf(user_configs)
             /\ notion' = notion
      ]_vars

C18_Witness ==
    \E w \in Workers :
       /\ Done(w)
       /\ Increment(req[w])
       /\ req[w].page_id = "pText"
       /\ req[w].registered
       /\ Len(req[w].calls) = 1
       /\ req[w].calls[1].st = OK
       /\ req[w].status = BadRequest
       /\ user_configs[req[w].x_api_key].total_views = 1
       /\ total_view_increments = 1

TotalUserViews(configs) == SumViews(configs, DOMAIN configs)

\* C20: with requests handled one after another, the sum of the tenants'
\* total_views never exceeds the process-wide counter; a successful
\* increment_views with a registered key raises the counter by 1 and then
\* that tenant's total_views (and so the sum) by 1, a successful one with an
\* inline token raises the counter by 1 and no total_views, and no other
\* step of an increment_views changes either.
C20_UserViewsWithinTotal ==
    [][ /\ TotalUserViews(user_configs') <= total_view_increments'
        /\ \A w \in Workers :
              (Acts(w) /\ Increment(req'[w])) =>
                 /\ total_view_increments' =
                      IF req[w].pc = "inc_store"
                      THEN total_view_increments + 1 ELSE total_view_increments
                 /\ ViewsOf(user_configs') =
                      IF req[w].pc = "inc_user_store"
                      THEN [ViewsOf(user_configs) EXCEPT ![req[w].x_api_key] = @ + 1]
                      ELSE ViewsOf(user_configs)
                 /\ TotalUserViews(user_configs') =
                      IF req[w].pc = "inc_user_store"
                      THEN TotalUserViews(user_configs) + 1
                      ELSE TotalUserViews(user_configs)
                 /\ (req'[w].pc = "done" /\ req'[w].status = OK) =>
                      IF req'[w].registered
                      THEN req[w].pc = "inc_user_store"
                      ELSE req[w].pc = "inc_user_load"
                 /\ req[w].pc = "inc_user_store" => req[w].registered
      ]_vars

C20_Witness ==
    \E w \in Workers :
       /\ Done(w)
       /\ req[w].op = "stats"
       /\ req[w].resp.total_views = 2
       /\ req[w].resp.total_user_views = 1
       /\ Cardinality(DOMAIN user_configs) = 2

====
